---- MODULE Spec2Model ----
(***************************************************************************)
(* librosa/feature/inverse.py: mel_to_stft, mel_to_audio, mfcc_to_mel and  *)
(* mfcc_to_audio as a state machine.  One action is one statement of the   *)
(* module, i.e. one invocation of a collaborator (scipy.fftpack.idct,      *)
(* db_to_power, filters.mel, nnls, np.power, griffinlim).                  *)
(*                                                                         *)
(* An array is modelled by its shape, its dtype and the set of values its  *)
(* entries take; the module only reads shapes and dtypes, hands arrays to  *)
(* collaborators and applies one element-wise operation, and all of these  *)
(* act exactly on that representation.  A number is a fraction <<n, d>>;   *)
(* d = 0 stands for the IEEE values inf (<<1, 0>>) and NaN (<<0, 0>>).     *)
(* An optional integer (None or int) is a sequence of length 0 or 1.       *)
(***************************************************************************)
EXTENDS Integers, Sequences, FiniteSets, TLC

VARIABLES pc,       \* the statement the current call executes next
          entry,    \* the public function the caller invoked
          kw,       \* the keywords the caller wrote: [given, val]
          arg,      \* the caller's input array as it was when the call began
          heap,     \* the buffers, by id; buffer 1 is the caller's input
          loc,      \* the local names of the running functions -> buffer ids
          trace,    \* the collaborator invocations of the current call
          result,   \* buffer id of the returned array, 0 while there is none
          err,      \* the exception that ended the call: [src, kind]
          ncalls,   \* number of calls begun on the caller's buffer
          prev      \* one earlier completed mel_to_stft call, remembered

vars == <<pc, entry, kw, arg, heap, loc, trace, result, err, ncalls, prev>>

------------------------------------------------------------------------------
\* Bounds of the model.

\* largest number of rows (bands, coefficients) and of frames of an input
MaxDim == 2

\* largest number of keywords a caller writes in one call
MaxKw == 2

\* largest number of calls made on one buffer
MaxCalls == 2

------------------------------------------------------------------------------
\* Numbers.

Num(n) == <<n, 1>>

Inf == <<1, 0>>

NaN == <<0, 0>>

IsNaN(v) == v = NaN

IsInf(v) == v[2] = 0 /\ v[1] # 0

IsFinite(v) == v[2] > 0

GE0(v) == IsFinite(v) /\ v[1] >= 0

RECURSIVE IPow(_, _)
IPow(b, e) == IF e = 0 THEN 1 ELSE b * IPow(b, e - 1)

\* the exact q-th root of a perfect q-th power
IRoot(n, q) == CHOOSE r \in 0..n : IPow(r, q) = n

Recip(v) ==
  IF v[1] = 0 THEN Inf
  ELSE IF v[1] < 0 THEN <<0 - v[2], 0 - v[1]>>
  ELSE <<v[2], v[1]>>

------------------------------------------------------------------------------
\* Keywords and defaults.

Keys == {"n_mels", "dct_type", "norm", "ref", "sr", "n_fft", "hop_length",
         "win_length", "window", "center", "pad_mode", "power", "n_iter",
         "length", "dtype", "fmax", "htk"}

\* default of hop_length in the signature of mel_to_audio
DefaultHopLength == 512

\* default of n_fft in the signatures of mel_to_stft and mel_to_audio
DefaultNFft == 2048

\* The defaults of the signatures.  fmax and htk are not parameters of this
\* module (they travel in **kwargs); their entries only fill the record.
Defaults ==
  [n_mels |-> 128, dct_type |-> 2, norm |-> "ortho", ref |-> 1,
   sr |-> 22050, n_fft |-> DefaultNFft, hop_length |-> <<DefaultHopLength>>,
   win_length |-> <<>>, window |-> "hann", center |-> TRUE,
   pad_mode |-> "reflect", power |-> 2, n_iter |-> 32, length |-> <<>>,
   dtype |-> "float32", fmax |-> <<>>, htk |-> FALSE]

\* A keyword set: the keys written and their values (a key not written
\* carries the filler of Defaults, so that equal keyword sets are equal).
Kw(given, val) ==
  [given |-> given,
   val |-> [k \in Keys |-> IF k \in given THEN val[k] ELSE Defaults[k]]]

NoKw == Kw({}, Defaults)

\* Python's binding of a named parameter: the keyword if written, else the
\* default of the signature.
Param(k, p) == IF p \in k.given THEN k.val[p] ELSE Defaults[p]

\* Python's **kwargs: the keywords written that the signature does not name.
Rest(k, sig) == Kw(k.given \ sig, k.val)

MelToStftSig == {"sr", "n_fft", "power"}

MelToAudioSig == {"sr", "n_fft", "hop_length", "win_length", "window",
                  "center", "pad_mode", "power", "n_iter", "length", "dtype"}

MfccToMelSig == {"n_mels", "dct_type", "norm", "ref"}

MfccToAudioSig == {"n_mels", "dct_type", "norm", "ref"}

GriffinLimKeys == {"n_iter", "hop_length", "win_length", "window", "center",
                   "dtype", "length", "pad_mode"}

\* mfcc_to_audio -> mfcc_to_mel(mfcc, n_mels=, dct_type=, norm=, ref=)
MfccToAudio_MelCall(k) ==
  Kw(MfccToMelSig, [x \in Keys |-> Param(k, x)])

\* faulty variant: n_iter is swallowed on the way to mel_to_audio
MfccToAudio_AudioCall_DropsNIter(k) == Rest(k, MfccToAudioSig \cup {"n_iter"})

\* mfcc_to_audio -> mel_to_audio(mel_spec, **kwargs)
MfccToAudio_AudioCall(k) == Rest(k, MfccToAudioSig)

\* mel_to_audio -> mel_to_stft(M, sr=sr, n_fft=n_fft, power=power, **kwargs)
MelToAudio_StftCall(k) ==
  Kw(MelToStftSig \cup (k.given \ MelToAudioSig),
     [x \in Keys |-> IF x \in MelToStftSig THEN Param(k, x) ELSE k.val[x]])

\* mel_to_audio -> griffinlim(stft, n_iter=, hop_length=, win_length=,
\* window=, center=, dtype=, length=, pad_mode=)
MelToAudio_GriffinCall(k) ==
  Kw(GriffinLimKeys, [x \in Keys |-> Param(k, x)])

\* faulty variant: the positional arguments sr and n_fft are swapped
MelToStft_MelCall_SwapsSrNFft(k, M) ==
  Kw({"sr", "n_fft", "n_mels", "dtype"} \cup (k.given \ MelToStftSig),
     [x \in Keys |->
        IF x = "sr" THEN Param(k, "n_fft")
        ELSE IF x = "n_fft" THEN Param(k, "sr")
        ELSE IF x = "n_mels" THEN M.rows
        ELSE IF x = "dtype" THEN M.dtype
        ELSE k.val[x]])

\* mel_to_stft -> filters.mel(sr, n_fft, n_mels=M.shape[0], dtype=M.dtype,
\* **kwargs)
MelToStft_MelCall(k, M) ==
  Kw({"sr", "n_fft", "n_mels", "dtype"} \cup (k.given \ MelToStftSig),
     [x \in Keys |->
        IF x \in {"sr", "n_fft"} THEN Param(k, x)
        ELSE IF x = "n_mels" THEN M.rows
        ELSE IF x = "dtype" THEN M.dtype
        ELSE k.val[x]])

\* filters.mel(..., n_mels=, dtype=, **kwargs) with n_mels or dtype also in
\* kwargs: Python raises TypeError (multiple values for a keyword argument)
MelToStft_MelCallClash(k) ==
  (k.given \ MelToStftSig) \cap {"n_mels", "dtype"} # {}

\* mel_to_stft: the exponent of np.power(inverse, 1./power, out=inverse)
MelToStft_Power(k) == Param(k, "power")

\* mfcc_to_mel -> scipy.fftpack.idct(mfcc, axis=0, type=dct_type, norm=norm,
\* n=n_mels)
MfccToMel_IdctCall(k) ==
  Kw({"dct_type", "norm", "n_mels"}, [x \in Keys |-> Param(k, x)])

\* mfcc_to_mel -> db_to_power(logmel, ref=ref)
MfccToMel_DbCall(k) == Kw({"ref"}, [x \in Keys |-> Param(k, x)])

------------------------------------------------------------------------------
\* Arrays and the collaborators.  filters.mel, nnls, db_to_power and
\* griffinlim live in other modules of the package; scipy.fftpack.idct and
\* np.power are libraries.

Array(r, c, d, vs) == [rows |-> r, cols |-> c, dtype |-> d, vals |-> vs]

DTypes == {"float32", "float64"}

\* value sets of the mel power spectrograms a caller passes (non-negative)
MelValSets == {{Num(0), Num(4)}, {Num(1)}}

\* value sets of the MFCC matrices a caller passes
MfccValSets == {{Num(0 - 3), Num(0), Num(5)}}

\* value sets of an inverse DCT's output (dB)
LogValSets == {{Num(0)}, {Num(0 - 10), Num(10)}}

\* a negative entry within the solver's numerical tolerance
NegEps == <<0 - 1, 100>>

\* value sets of a solution returned by the solver
SolValSets == {{Num(0), Num(4)}, {Num(1), Num(4)}, {NegEps, Num(4)}}

RECURSIVE Gcd(_, _)
Gcd(a, b) == IF b = 0 THEN a ELSE Gcd(b, a % b)

Frac(n, d) == LET g == Gcd(IF n < 0 THEN 0 - n ELSE n, d)
              IN  IF g = 0 THEN <<n, d>> ELSE <<n \div g, d \div g>>

\* scipy.fftpack.idct(x, type, n, axis=0, norm): n rows, the frames of x
IdctOut(x, c, vs) == Array(c.val["n_mels"], x.cols, x.dtype, vs)

\* DCT-I is not defined for fewer than two points
IdctMustFail(c) == c.val["dct_type"] = 1 /\ c.val["n_mels"] < 2

\* The errors idct may raise for a call.  Orthonormalised DCT-I is refused
\* (NotImplementedError) by the scipy releases that do not implement it and
\* computed by those that do.
IdctErrors(c) ==
  (IF c.val["dct_type"] = 1 /\ c.val["norm"] = "ortho"
     THEN {"NotImplementedError"} ELSE {})
  \cup (IF IdctMustFail(c) THEN {"ValueError"} ELSE {})

\* db_to_power on one entry, a multiple of 10 dB: ref * 10^(v/10)
DbToPow(v, ref) ==
  IF v[1] >= 0 THEN Frac(ref * IPow(10, v[1] \div 10), 1)
  ELSE Frac(ref, IPow(10, (0 - v[1]) \div 10))

DbToPowerOut(x, c) ==
  Array(x.rows, x.cols, x.dtype, {DbToPow(v, c.val["ref"]) : v \in x.vals})

DbToPowerErrors == {"TypeError"}

\* the keywords filters.mel accepts besides sr, n_fft, n_mels and dtype
MelFilterKeys == {"fmax", "htk", "norm"}

\* filters.mel: n_mels rows, 1 + n_fft // 2 columns, non-negative weights
MelOut(c) ==
  Array(c.val["n_mels"], 1 + (c.val["n_fft"] \div 2), c.val["dtype"],
        {Num(0), Num(1)})

\* an unknown keyword is a TypeError, an unsupported norm a ParameterError
MelErrors(c) ==
  (IF c.given \ ({"sr", "n_fft", "n_mels", "dtype"} \cup MelFilterKeys) # {}
     THEN {"TypeError"} ELSE {})
  \cup (IF "norm" \in c.given /\ c.val["norm"] = "ortho"
          THEN {"ParameterError"} ELSE {})

MelMustFail(c) == MelErrors(c) # {}

\* nnls(A, B): A.shape[1] rows, B.shape[1] columns
NnlsOut(A, B, vs) == Array(A.cols, B.cols, A.dtype, vs)

NnlsErrors == {"ValueError"}

\* faulty variant: np.power(x, p), the exponent not inverted
PowInv_NotInverted(v, p) ==
  IF p >= 1 /\ IsFinite(v) THEN <<IPow(v[1], p), IPow(v[2], p)>> ELSE v

\* np.power(x, 1./p) on one entry, p a non-zero integer
PowInv(v, p) ==
  IF IsNaN(v) THEN NaN
  ELSE IF p = 1 THEN v
  ELSE IF p > 1 THEN
    (IF v[1] < 0 THEN NaN
     ELSE IF IsInf(v) THEN Inf
     ELSE <<IRoot(v[1], p), IRoot(v[2], p)>>)
  ELSE IF p = 0 - 1 THEN Recip(v)
  ELSE
    (IF v[1] < 0 THEN NaN
     ELSE IF IsInf(v) THEN Num(0)
     ELSE Recip(<<IRoot(v[1], 0 - p), IRoot(v[2], 0 - p)>>))

\* griffinlim infers the FFT size from the rows of the spectrogram
GriffinLimNFft(S) == 2 * (S.rows - 1)

\* griffinlim: hop_length None means a quarter of the inferred FFT size
GriffinLimHop(S, c) ==
  IF c.val["hop_length"] = <<>> THEN GriffinLimNFft(S) \div 4
  ELSE c.val["hop_length"][1]

GriffinLimOut(S, c) ==
  Array(1,
        IF c.val["length"] # <<>> THEN c.val["length"][1]
        ELSE GriffinLimHop(S, c) * (S.cols - 1),
        c.val["dtype"], {Num(0)})

GriffinLimErrors == {"ParameterError"}

------------------------------------------------------------------------------
\* The calls a caller makes.

Fns == {"mel_to_stft", "mel_to_audio", "mfcc_to_mel", "mfcc_to_audio"}

\* the keywords a caller writes (any other parameter takes its default)
CallerKeys == {"n_mels", "dct_type", "norm", "ref", "sr", "n_fft",
               "hop_length", "power", "n_iter", "pad_mode", "dtype", "htk"}

KwChoices(k) ==
  CASE k = "n_mels" -> 1..MaxDim
    [] k = "dct_type" -> {1, 2, 3}
    [] k = "norm" -> {"None", "ortho"}
    [] k = "ref" -> {10}
    [] k = "sr" -> {8000}
    [] k = "n_fft" -> {4, 5}
    [] k = "hop_length" -> {<<>>, <<1>>}
    [] k = "win_length" -> {<<4>>}
    [] k = "window" -> {"hamming"}
    [] k = "center" -> {FALSE}
    [] k = "pad_mode" -> {"constant"}
    [] k = "power" -> {0 - 1, 0, 1, 2}
    [] k = "n_iter" -> {1}
    [] k = "length" -> {<<3>>}
    [] k = "dtype" -> {"float64"}
    [] k = "fmax" -> {<<4000>>}
    [] k = "htk" -> {TRUE}

RECURSIVE ValsOver(_)
ValsOver(g) ==
  IF g = {} THEN {Defaults}
  ELSE LET k == CHOOSE x \in g : TRUE
       IN  {[f EXCEPT ![k] = v] : f \in ValsOver(g \ {k}), v \in KwChoices(k)}

\* the keyword sets over the keys ks with at most MaxKw keywords
KwsOver(ks) ==
  UNION {{Kw(g, f) : f \in ValsOver(g)} :
           g \in {h \in SUBSET ks : Cardinality(h) <= MaxKw}}

InputArrays(fn) ==
  {Array(r, c, d, vs) :
     r \in 1..MaxDim, c \in 1..MaxDim, d \in DTypes,
     vs \in IF fn \in {"mel_to_stft", "mel_to_audio"}
              THEN MelValSets ELSE MfccValSets}

NoArray == Array(0, 0, "", {})

NoErr == [src |-> "", kind |-> ""]

NoLoc == [logmel |-> 0, M |-> 0, mel_basis |-> 0, inverse |-> 0, stft |-> 0]

NoPrev == [set |-> FALSE, kw |-> NoKw, M |-> NoArray, melkw |-> NoKw,
           solved |-> NoArray, out |-> NoArray]

\* the keywords each running function holds, from those the caller wrote
MelKw == IF entry = "mfcc_to_mel" THEN kw ELSE MfccToAudio_MelCall(kw)

AudioKw == IF entry = "mfcc_to_audio" THEN MfccToAudio_AudioCall(kw) ELSE kw

StftKw == IF entry = "mel_to_stft" THEN kw ELSE MelToAudio_StftCall(AudioKw)

\* faulty variant: an exception is wrapped in the package's ParameterError
Propagate_AsParameterError(e) == [src |-> e.src, kind |-> "ParameterError"]

\* no try/except anywhere in the module: an exception leaves unchanged
Propagate(e) == e

\* one collaborator invocation: the keywords it received, the buffers it
\* read, the buffer it returned or wrote and the array in it; when it raised,
\* out is 0 and exc is the exception
Invoke(fn, c, ins, out, val) ==
  [fn |-> fn, kw |-> c, ins |-> ins, out |-> out, val |-> val, exc |-> NoErr]

Failed(fn, c, ins, e) ==
  [fn |-> fn, kw |-> c, ins |-> ins, out |-> 0, val |-> NoArray, exc |-> e]

Raise(fn, c, ins, e) ==
  /\ pc' = "raised"
  /\ err' = Propagate(e)
  /\ trace' = Append(trace, Failed(fn, c, ins, e))
  /\ UNCHANGED <<entry, kw, arg, heap, loc, result, ncalls, prev>>

Init ==
  /\ pc = "idle"
  /\ entry = ""
  /\ kw = NoKw
  /\ arg = NoArray
  /\ heap = <<>>
  /\ loc = NoLoc
  /\ trace = <<>>
  /\ result = 0
  /\ err = NoErr
  /\ ncalls = 0
  /\ prev = NoPrev

\* a caller invokes one of the four public functions
Call ==
  /\ pc = "idle"
  /\ \E fn \in Fns : \E a \in InputArrays(fn) : \E k \in KwsOver(CallerKeys) :
       LET bad == fn = "mfcc_to_mel" /\ ~(k.given \subseteq MfccToMelSig)
       IN  /\ entry' = fn
           /\ kw' = k
           /\ arg' = a
           /\ heap' = <<a>>
           /\ loc' = [NoLoc EXCEPT
                        !.M = IF fn \in {"mel_to_stft", "mel_to_audio"}
                                THEN 1 ELSE 0]
           /\ pc' = IF bad THEN "raised"
                    ELSE IF fn \in {"mfcc_to_mel", "mfcc_to_audio"}
                           THEN "idct" ELSE "mel"
           /\ err' = IF bad THEN [src |-> "python", kind |-> "TypeError"]
                     ELSE NoErr
  /\ trace' = <<>>
  /\ result' = 0
  /\ UNCHANGED <<ncalls, prev>>

\* logmel = scipy.fftpack.idct(mfcc, axis=0, type=dct_type, norm=norm, n=n_mels)
Idct ==
  /\ pc = "idct"
  /\ LET c == MfccToMel_IdctCall(MelKw)
         id == Len(heap) + 1
     IN  /\ ~IdctMustFail(c)
         /\ \E vs \in LogValSets :
              /\ heap' = Append(heap, IdctOut(heap[1], c, vs))
              /\ trace' = Append(trace, Invoke("idct", c, {1}, id,
                                               IdctOut(heap[1], c, vs)))
         /\ loc' = [loc EXCEPT !.logmel = id]
  /\ pc' = "db_to_power"
  /\ UNCHANGED <<entry, kw, arg, result, err, ncalls, prev>>

IdctRaises ==
  /\ pc = "idct"
  /\ LET c == MfccToMel_IdctCall(MelKw)
     IN  \E e \in IdctErrors(c) : Raise("idct", c, {1}, [src |-> "idct", kind |-> e])

\* return db_to_power(logmel, ref=ref)
DbToPower ==
  /\ pc = "db_to_power"
  /\ LET c == MfccToMel_DbCall(MelKw)
         id == Len(heap) + 1
     IN  /\ heap' = Append(heap, DbToPowerOut(heap[loc.logmel], c))
         /\ loc' = [loc EXCEPT !.M = id]
         /\ trace' = Append(trace, Invoke("db_to_power", c, {loc.logmel}, id,
                                          DbToPowerOut(heap[loc.logmel], c)))
         /\ result' = IF entry = "mfcc_to_mel" THEN id ELSE 0
  /\ pc' = IF entry = "mfcc_to_mel" THEN "done" ELSE "mel"
  /\ UNCHANGED <<entry, kw, arg, err, ncalls, prev>>

DbToPowerRaises ==
  /\ pc = "db_to_power"
  /\ \E e \in DbToPowerErrors :
       Raise("db_to_power", MfccToMel_DbCall(MelKw), {loc.logmel},
             [src |-> "db_to_power", kind |-> e])

\* mel_basis = filters.mel(sr, n_fft, n_mels=M.shape[0], dtype=M.dtype, **kwargs)
MelBasis ==
  /\ pc = "mel"
  /\ LET k == StftKw
         c == MelToStft_MelCall(k, heap[loc.M])
         id == Len(heap) + 1
     IN  IF MelToStft_MelCallClash(k)
           THEN /\ pc' = "raised"
                /\ err' = [src |-> "python", kind |-> "TypeError"]
                /\ UNCHANGED <<heap, loc, trace>>
           ELSE /\ ~MelMustFail(c)
                /\ heap' = Append(heap, MelOut(c))
                /\ loc' = [loc EXCEPT !.mel_basis = id]
                /\ trace' = Append(trace, Invoke("mel", c, {loc.M}, id, MelOut(c)))
                /\ pc' = "nnls"
                /\ err' = err
  /\ UNCHANGED <<entry, kw, arg, result, ncalls, prev>>

MelBasisRaises ==
  /\ pc = "mel"
  /\ ~MelToStft_MelCallClash(StftKw)
  /\ LET c == MelToStft_MelCall(StftKw, heap[loc.M])
     IN  \E e \in MelErrors(c) :
           Raise("mel", c, {loc.M}, [src |-> "mel", kind |-> e])

\* The solver is a function of its arguments: called with the arguments of
\* the remembered call it returns what it returned then.
NnlsChoices ==
  IF /\ prev.set
     /\ prev.melkw = trace[Len(trace)].kw
     /\ prev.M = heap[loc.M]
    THEN {prev.solved.vals}
    ELSE SolValSets

\* inverse = nnls(mel_basis, M): a buffer of its own
Nnls ==
  /\ pc = "nnls"
  /\ LET id == Len(heap) + 1
     IN  /\ \E vs \in NnlsChoices :
              LET x == NnlsOut(heap[loc.mel_basis], heap[loc.M], vs)
              IN  /\ heap' = Append(heap, x)
                  /\ trace' = Append(trace, Invoke("nnls", NoKw,
                                                   {loc.mel_basis, loc.M}, id, x))
         /\ loc' = [loc EXCEPT !.inverse = id]
  /\ pc' = "power"
  /\ UNCHANGED <<entry, kw, arg, result, err, ncalls, prev>>

NnlsRaises ==
  /\ pc = "nnls"
  /\ \E e \in NnlsErrors :
       Raise("nnls", NoKw, {loc.mel_basis, loc.M}, [src |-> "nnls", kind |-> e])

\* faulty variant: out=M
OutBuffer_M(l) == l.M

\* the buffer np.power(inverse, 1./power, out=inverse) writes and returns
OutBuffer(l) == l.inverse

\* return np.power(inverse, 1./power, out=inverse)
InversePower ==
  /\ pc = "power"
  /\ LET p == MelToStft_Power(StftKw)
         b == OutBuffer(loc)
         c == Kw({"power"}, [Defaults EXCEPT !.power = p])
         x == [heap[b] EXCEPT !.vals = {PowInv(v, p) : v \in heap[loc.inverse].vals}]
     IN  IF p = 0
           THEN /\ pc' = "raised"
                /\ err' = [src |-> "mel_to_stft", kind |-> "ZeroDivisionError"]
                /\ UNCHANGED <<heap, loc, trace, result>>
           ELSE /\ heap' = [heap EXCEPT ![b] = x]
                /\ trace' = Append(trace, Invoke("power", c, {loc.inverse}, b, x))
                /\ loc' = [loc EXCEPT !.stft = b]
                /\ result' = IF entry = "mel_to_stft" THEN b ELSE 0
                /\ pc' = IF entry = "mel_to_stft" THEN "done" ELSE "griffinlim"
                /\ err' = err
  /\ UNCHANGED <<entry, kw, arg, ncalls, prev>>

\* faulty variant: griffinlim is handed the mel spectrogram
MelToAudio_GriffinInput_M(l) == l.M

\* the array mel_to_audio hands to griffinlim: stft
MelToAudio_GriffinInput(l) == l.stft

\* return griffinlim(stft, n_iter=n_iter, hop_length=hop_length, ...)
GriffinLim ==
  /\ pc = "griffinlim"
  /\ LET c == MelToAudio_GriffinCall(AudioKw)
         id == Len(heap) + 1
         S == MelToAudio_GriffinInput(loc)
         y == GriffinLimOut(heap[S], c)
     IN  /\ heap' = Append(heap, y)
         /\ trace' = Append(trace, Invoke("griffinlim", c, {S}, id, y))
         /\ result' = id
  /\ pc' = "done"
  /\ UNCHANGED <<entry, kw, arg, loc, err, ncalls, prev>>

GriffinLimRaises ==
  /\ pc = "griffinlim"
  /\ \E e \in GriffinLimErrors :
       Raise("griffinlim", MelToAudio_GriffinCall(AudioKw),
             {MelToAudio_GriffinInput(loc)},
             [src |-> "griffinlim", kind |-> e])

\* the call has ended; its locals are discarded
Return ==
  /\ pc \in {"done", "raised"}
  /\ pc' = "idle"
  /\ entry' = ""
  /\ kw' = NoKw
  /\ arg' = NoArray
  /\ heap' = <<>>
  /\ loc' = NoLoc
  /\ trace' = <<>>
  /\ result' = 0
  /\ err' = NoErr
  /\ UNCHANGED <<ncalls, prev>>

Next ==
  \/ Call
  \/ Idct
  \/ IdctRaises
  \/ DbToPower
  \/ DbToPowerRaises
  \/ MelBasis
  \/ MelBasisRaises
  \/ Nnls
  \/ NnlsRaises
  \/ InversePower
  \/ GriffinLim
  \/ GriffinLimRaises
  \/ Return

Spec == Init /\ [][Next]_vars

------------------------------------------------------------------------------
\* Repeated calls of mel_to_stft on one buffer of the caller.

StftCallKeys == {"n_fft", "power", "norm"}

InitStft ==
  /\ pc = "idle"
  /\ entry = "mel_to_stft"
  /\ kw = NoKw
  /\ \E a \in InputArrays("mel_to_stft") : arg = a /\ heap = <<a>>
  /\ loc = NoLoc
  /\ trace = <<>>
  /\ result = 0
  /\ err = NoErr
  /\ ncalls = 0
  /\ prev = NoPrev

\* mel_to_stft(M, **k) on the caller's buffer as it is now
CallStft ==
  /\ pc = "idle"
  /\ ncalls < MaxCalls
  /\ \E k \in KwsOver(StftCallKeys) : kw' = k
  /\ entry' = "mel_to_stft"
  /\ arg' = heap[1]
  /\ heap' = <<heap[1]>>
  /\ loc' = [NoLoc EXCEPT !.M = 1]
  /\ pc' = "mel"
  /\ trace' = <<>>
  /\ result' = 0
  /\ err' = NoErr
  /\ ncalls' = ncalls + 1
  /\ prev' = prev

\* the call has ended; the caller keeps its buffer and may remember the call
ReturnStft ==
  /\ pc \in {"done", "raised"}
  /\ \/ prev' = prev
     \/ /\ pc = "done"
        /\ ~prev.set
        /\ prev' = [set |-> TRUE, kw |-> kw, M |-> arg, melkw |-> trace[1].kw,
                    solved |-> trace[2].val, out |-> heap[result]]
  /\ pc' = "idle"
  /\ heap' = <<heap[1]>>
  /\ loc' = NoLoc
  /\ trace' = <<>>
  /\ result' = 0
  /\ err' = NoErr
  /\ UNCHANGED <<entry, kw, arg, ncalls>>

NextStft ==
  \/ CallStft
  \/ MelBasis
  \/ MelBasisRaises
  \/ Nnls
  \/ NnlsRaises
  \/ InversePower
  \/ ReturnStft

SpecStft == InitStft /\ [][NextStft]_vars

------------------------------------------------------------------------------
\* Properties.

Ended == pc \in {"done", "raised"}

\* what the caller wrote for p, or the default of the signatures
Written(p) == IF p \in kw.given THEN kw.val[p] ELSE Defaults[p]

\* the invocations of fn so far, and those that returned
Steps(fn) == {i \in 1..Len(trace) : trace[i].fn = fn}

Returned(fn) == {i \in Steps(fn) : trace[i].out # 0}

NonNegative(x) == \A v \in x.vals : GE0(v)

Order == <<"idct", "db_to_power", "mel", "nnls", "power", "griffinlim">>

\* C1: a call mel_to_stft(M, power=p) with p <= 0 whose collaborators all
\* succeed (the solver returning a non-negative solution) ends with
\* InvalidParameter (librosa's ParameterError) and returns no array.
C1_NonPositivePowerRejected ==
  (/\ entry = "mel_to_stft"
   /\ Ended
   /\ Written("power") <= 0
   /\ err.src \in {"", "mel_to_stft"}
   /\ \A i \in Returned("nnls") : NonNegative(trace[i].val))
  => (pc = "raised" /\ err.kind = "ParameterError" /\ result = 0)

\* C2: when the caller of mel_to_audio writes no hop_length, griffinlim is
\* handed hop_length = n_fft // 4 for the n_fft of the call.
C2_HopDefaultsToQuarterNFft ==
  \A i \in Steps("griffinlim") :
    "hop_length" \notin kw.given
      => trace[i].kw.val["hop_length"] = <<Written("n_fft") \div 4>>

\* C3: in mfcc_to_audio(mfcc, **kw) the inverse DCT and db_to_power receive
\* exactly n_mels, dct_type, norm and ref (as written, else the defaults), and
\* every other keyword written reaches the stage of mel_to_audio that takes
\* it, with its value, none dropped and none added: what
\* mel_to_audio(mfcc_to_mel(mfcc, n_mels, dct_type, norm, ref), **rest) passes.
C3_KeywordsPartitioned ==
  entry = "mfcc_to_audio" =>
    \A i \in 1..Len(trace) :
      LET t == trace[i]
          c == t.kw
          rest == kw.given \ {"n_mels", "dct_type", "norm", "ref"}
          mel == rest \ {"sr", "n_fft", "hop_length", "win_length", "window",
                         "center", "pad_mode", "power", "n_iter", "length",
                         "dtype"}
      IN  /\ t.fn = "idct" =>
               /\ c.given = {"dct_type", "norm", "n_mels"}
               /\ \A x \in c.given : c.val[x] = Written(x)
          /\ t.fn = "db_to_power" =>
               /\ c.given = {"ref"}
               /\ c.val["ref"] = Written("ref")
          /\ t.fn = "mel" =>
               /\ c.given = {"sr", "n_fft", "n_mels", "dtype"} \cup mel
               /\ \A x \in {"sr", "n_fft"} \cup mel : c.val[x] = Written(x)
               /\ \A b \in t.ins : c.val["n_mels"] = heap[b].rows
                                   /\ c.val["dtype"] = heap[b].dtype
          /\ t.fn = "power" => c.val["power"] = Written("power")
          /\ t.fn = "griffinlim" =>
               /\ c.given = {"n_iter", "hop_length", "win_length", "window",
                             "center", "dtype", "length", "pad_mode"}
               /\ \A x \in c.given : c.val[x] = Written(x)

C3_Witness ==
  /\ pc = "done"
  /\ entry = "mfcc_to_audio"
  /\ "dct_type" \in kw.given
  /\ "n_iter" \in kw.given

C6_Dct1OrthoRejected ==
  (/\ entry \in {"mfcc_to_mel", "mfcc_to_audio"}
   /\ Ended
   /\ Written("dct_type") = 1
   /\ Written("norm") = "ortho"
   /\ Written("n_mels") >= 2
   /\ err.src \in {"", "idct"})
  => (pc = "raised" /\ err.kind = "ParameterError" /\ result = 0)

\* C7: when a collaborator raises, the call ends with exactly that error,
\* no later stage is invoked, the collaborator is not invoked again and
\* nothing is returned.
C7_CollaboratorErrorsPropagate ==
  /\ \A i \in 1..Len(trace) :
       trace[i].out = 0 =>
         /\ i = Len(trace)
         /\ pc = "raised"
         /\ err = trace[i].exc
         /\ err.src = trace[i].fn
         /\ result = 0
  /\ \A i, j \in 1..Len(trace) : trace[i].fn = trace[j].fn => i = j
  /\ (pc = "raised" /\ err.src \notin {"python", "mel_to_stft"})
       => (trace # <<>> /\ trace[Len(trace)].out = 0)

C7_Witness ==
  /\ pc = "raised"
  /\ entry = "mfcc_to_audio"
  /\ err = [src |-> "nnls", kind |-> "ValueError"]
  /\ Len(trace) = 4

\* C8 as stated: a successful mfcc_to_audio invokes the six collaborators
\* once each in the fixed order, and each reads only what the stage before
\* it returned.
C8_EachStageReadsOnlyPrevious ==
  (pc = "done" /\ entry = "mfcc_to_audio") =>
    /\ [i \in 1..Len(trace) |-> trace[i].fn] = Order
    /\ \A i \in 2..Len(trace) : \A b \in trace[i].ins : b = trace[i - 1].out

\* C8 amended: a successful mfcc_to_audio invokes the six collaborators once
\* each in the fixed order (at any moment the invocations so far are a prefix
\* of it); each stage reads what the stage before it returned and nothing
\* from a later stage, and only the NNLS solve reads more: the mel spectrum
\* that db_to_power returned, next to the mel basis.
C8_FeedForwardOrder ==
  entry = "mfcc_to_audio" =>
    /\ Len(trace) <= Len(Order)
    /\ \A i \in 1..Len(trace) : trace[i].fn = Order[i]
    /\ pc = "done" => Len(trace) = Len(Order)
    /\ \A i \in 2..Len(trace) :
         /\ trace[i - 1].out \in trace[i].ins
         /\ \A b \in trace[i].ins :
              b # trace[i - 1].out
                => (trace[i].fn = "nnls" /\ b = trace[2].out)

C8_Witness ==
  /\ pc = "done"
  /\ entry = "mfcc_to_audio"
  /\ Len(trace) = 6
  /\ trace[4].ins = {trace[3].out, trace[2].out}

\* C9: mel_to_stft leaves the caller's M as it was; the in-place exponent
\* writes only the buffer the solver returned in this call; the mel basis is
\* built in every call; a call with the arguments of an earlier call returns
\* what that call returned.
C9_NoSideEffects ==
  /\ heap[1] = arg
  /\ \A i \in Steps("power") :
       /\ trace[i].out # 1
       /\ trace[i].out = trace[i - 1].out
       /\ trace[i - 1].fn = "nnls"
  /\ \A i \in Steps("nnls") : i = 2 /\ trace[1].fn = "mel"
  /\ (pc = "done" /\ prev.set /\ prev.kw = kw /\ prev.M = arg)
       => heap[result] = prev.out

C9_Witness ==
  /\ pc = "done"
  /\ ncalls = 2
  /\ prev.set
  /\ prev.kw = kw
  /\ prev.M = arg
  /\ "power" \in kw.given

\* C10: the FFT size griffinlim recovers from the rows of the spectrogram it
\* is handed, 2 * (R - 1), is the n_fft that mel_to_stft was given.
C10_SameFftSize ==
  \A i \in Steps("griffinlim") :
    \A b \in trace[i].ins : GriffinLimNFft(heap[b]) = Written("n_fft")

====
